---- MODULE Spec2Model ----
(***************************************************************************)
(* Model of api/main.py: one FastAPI application object with one route,    *)
(* GET /greet, whose endpoint greet(name: str) returns                     *)
(* {"message": f"Hello, my name is {name}"}.                               *)
(*                                                                         *)
(* Text is modelled as a sequence of one-character strings, so that the    *)
(* f-string is a real concatenation and trimming, case folding or a lost   *)
(* character are observable.  The server handles NumSlots connections      *)
(* concurrently; each connection carries one request at a time through     *)
(*   idle -> received -> (running ->) responded -> idle.                   *)
(* greet is a plain "def", so the framework runs it on a worker thread:    *)
(* any interleaving of the connections' steps is possible.                 *)
(***************************************************************************)
EXTENDS Integers, Sequences, FiniteSets, TLC

\* ---------------------------------------------------------------- bounds
\* Longest name value a client sends.
MaxLen == 1
\* Number of connections served concurrently.
NumSlots == 2

\* Characters a name is made of: a letter and whitespace.
Alphabet == {"A", " "}
Names == UNION {[1..n -> Alphabet] : n \in 0..MaxLen}
Slots == 1..NumSlots
Methods == {"GET", "POST"}
Paths == {"/greet", "/other"}
\* The values of the query parameter "name": none, or one text value.
Queries == {<<>>} \cup {<<v>> : v \in Names}
Requests == [method : Methods, path : Paths, query : Queries]

\* ------------------------------------------------------- the application
\* @app.get("/greet") on def greet: the one route the source registers.
GreetRoute == [path |-> "/greet", methods |-> {"GET"}, endpoint |-> "greet"]

\* app = FastAPI() followed by the decorator: the routing table.
InitApp == [routes |-> {GreetRoute}]

\* The literal part of the f-string, "Hello, my name is ".
Prefix ==
  <<"H", "e", "l", "l", "o", ",", " ", "m", "y", " ",
    "n", "a", "m", "e", " ", "i", "s", " ">>

\* str.lower on the model's characters.
Lower(c) == IF c = "A" THEN "a" ELSE c

RECURSIVE LStrip(_)
\* str.lstrip: drop leading whitespace.
LStrip(t) == IF t # <<>> /\ Head(t) = " " THEN LStrip(Tail(t)) ELSE t

\* Bug variant of greet: the name is stripped before formatting.
greet_stripped(name) == [message |-> Prefix \o LStrip(name)]

\* Bug variant of greet: the name is lower-cased before formatting.
greet_lowered(name) == [message |-> Prefix \o [i \in 1..Len(name) |-> Lower(name[i])]]

\* The body of greet: return {"message": f"Hello, my name is {name}"}.
\* Formatting a str with an empty format spec yields the str itself, so the
\* f-string is the literal followed by the characters of name.
greet(name) == [message |-> Prefix \o name]

\* Bug variant of RouteMatches: the HTTP method is not compared.
RouteMatchesAnyMethod(route, method, path) ==
  IF route.path = path THEN "FULL" ELSE "NONE"

\* How a request matches a route registered with @app.get(path): FULL when
\* path and method agree, PARTIAL when only the path does, NONE otherwise.
RouteMatches(route, method, path) ==
  IF route.path # path THEN "NONE"
  ELSE IF method \in route.methods THEN "FULL"
  ELSE "PARTIAL"

\* Bug variant of NameMissing: an empty value counts as missing.
NameMissingOrEmpty(query) == query = <<>> \/ query = << <<>> >>

\* name: str has no default, so the parameter is required: it is missing
\* exactly when the query string carries no value for it.  Every value that
\* is present is already text, so no value fails the coercion to str.
NameMissing(query) == query = <<>>

\* Bug variant of ValidationError: the rejection surfaces as a server error.
ValidationErrorAsServerError ==
  [status |-> 500, body |-> [detail |-> "Internal Server Error"]]

\* The framework's answer for a missing required parameter.
ValidationError == [status |-> 422, body |-> [detail |-> "Field required"]]

\* The framework's answer when no route has the path.
NotFound == [status |-> 404, body |-> [detail |-> "Not Found"]]

\* The framework's answer when a route has the path but not the method.
MethodNotAllowed == [status |-> 405, body |-> [detail |-> "Method Not Allowed"]]

\* A successful return of the endpoint: status 200, the returned dict as body.
Ok(content) == [status |-> 200, body |-> content]

\* ------------------------------------------------------------------ state
VARIABLES
  app,       \* the module-level FastAPI object: its routing table
  pc,        \* per connection: "idle", "received", "running", "responded"
  req,       \* per connection: the request being served
  endpoint,  \* per connection: the endpoint the router called, or "none"
  name,      \* per connection: the argument bound to greet's parameter
  resp       \* per connection: the response sent

vars == <<app, pc, req, endpoint, name, resp>>

NoReq == [method |-> "-", path |-> "-", query |-> <<>>]
NoResp == [status |-> 0, body |-> [detail |-> "-"]]

Init ==
  /\ app = InitApp
  /\ pc = [s \in Slots |-> "idle"]
  /\ req = [s \in Slots |-> NoReq]
  /\ endpoint = [s \in Slots |-> "none"]
  /\ name = [s \in Slots |-> <<>>]
  /\ resp = [s \in Slots |-> NoResp]

\* A client sends request r on idle connection s.
Receive(s, r) ==
  /\ pc[s] = "idle"
  /\ pc' = [pc EXCEPT ![s] = "received"]
  /\ req' = [req EXCEPT ![s] = r]
  /\ UNCHANGED <<app, endpoint, name, resp>>

\* The routes of the table that match the request fully / by path only.
FullMatches(r) ==
  {rt \in app.routes : RouteMatches(rt, r.method, r.path) = "FULL"}
PartialMatches(r) ==
  {rt \in app.routes : RouteMatches(rt, r.method, r.path) = "PARTIAL"}

\* Bug variant of Dispatch: the parameter has a default (name: str = None),
\* so a request without it is passed on to the endpoint.
DispatchWithDefault(s) ==
  /\ pc[s] = "received"
  /\ IF FullMatches(req[s]) # {}
     THEN /\ pc' = [pc EXCEPT ![s] = "running"]
          /\ endpoint' = [endpoint EXCEPT ![s] = "greet"]
          /\ name' = [name EXCEPT ![s] =
                IF req[s].query = <<>> THEN <<"N", "o", "n", "e">>
                ELSE req[s].query[1]]
          /\ UNCHANGED resp
     ELSE /\ pc' = [pc EXCEPT ![s] = "responded"]
          /\ resp' = [resp EXCEPT ![s] =
                IF PartialMatches(req[s]) # {} THEN MethodNotAllowed ELSE NotFound]
          /\ UNCHANGED <<endpoint, name>>
  /\ UNCHANGED <<app, req>>

\* The framework layer in front of the endpoint: route the request, then
\* validate the declared parameter, and only then call greet with it.
Dispatch(s) ==
  /\ pc[s] = "received"
  /\ IF FullMatches(req[s]) = {}
     THEN /\ pc' = [pc EXCEPT ![s] = "responded"]
          /\ resp' = [resp EXCEPT ![s] =
                IF PartialMatches(req[s]) # {} THEN MethodNotAllowed ELSE NotFound]
          /\ UNCHANGED <<endpoint, name>>
     ELSE IF NameMissing(req[s].query)
     THEN /\ pc' = [pc EXCEPT ![s] = "responded"]
          /\ resp' = [resp EXCEPT ![s] = ValidationError]
          /\ UNCHANGED <<endpoint, name>>
     ELSE /\ pc' = [pc EXCEPT ![s] = "running"]
          /\ endpoint' = [endpoint EXCEPT ![s] = "greet"]
          /\ name' = [name EXCEPT ![s] = req[s].query[1]]
          /\ UNCHANGED resp
  /\ UNCHANGED <<app, req>>

\* Bug variant of Greet: the name is kept in a module-level variable, so the
\* endpoint may format the name another running request stored there.
GreetSharedName(s) ==
  /\ pc[s] = "running"
  /\ \E t \in {u \in Slots : pc[u] = "running"} :
        resp' = [resp EXCEPT ![s] = Ok(greet(name[t]))]
  /\ pc' = [pc EXCEPT ![s] = "responded"]
  /\ UNCHANGED <<app, req, endpoint, name>>

\* Bug variant of Greet: every call registers something on the app object.
GreetRegisters(s) ==
  /\ pc[s] = "running"
  /\ pc' = [pc EXCEPT ![s] = "responded"]
  /\ resp' = [resp EXCEPT ![s] = Ok(greet(name[s]))]
  /\ app' = [app EXCEPT !.routes = @ \cup
        {[path |-> "/other", methods |-> {"GET"}, endpoint |-> "greet"]}]
  /\ UNCHANGED <<req, endpoint, name>>

\* Bug variant of Greet: the endpoint waits and never returns.
GreetSuspends(s) ==
  /\ pc[s] = "running"
  /\ UNCHANGED vars

\* The endpoint runs: its single return statement produces the body, which
\* the framework sends with status 200.
Greet(s) ==
  /\ pc[s] = "running"
  /\ pc' = [pc EXCEPT ![s] = "responded"]
  /\ resp' = [resp EXCEPT ![s] = Ok(greet(name[s]))]
  /\ UNCHANGED <<app, req, endpoint, name>>

\* The client has read the response; the connection serves the next request.
Close(s) ==
  /\ pc[s] = "responded"
  /\ pc' = [pc EXCEPT ![s] = "idle"]
  /\ req' = [req EXCEPT ![s] = NoReq]
  /\ endpoint' = [endpoint EXCEPT ![s] = "none"]
  /\ name' = [name EXCEPT ![s] = <<>>]
  /\ resp' = [resp EXCEPT ![s] = NoResp]
  /\ UNCHANGED app

Next ==
  \/ \E s \in Slots, r \in Requests : Receive(s, r)
  \/ \E s \in Slots : Dispatch(s)
  \/ \E s \in Slots : Greet(s)
  \/ \E s \in Slots : Close(s)

Spec == Init /\ [][Next]_vars

\* The server schedules every accepted request and every started endpoint
\* call; clients are free to send nothing and to never read.
FairSpec ==
  /\ Spec
  /\ \A s \in Slots : WF_vars(Dispatch(s)) /\ WF_vars(Greet(s))

\* ---------------------------------------------------------------- claims
\* Connection s has been answered.
Responded(s) == pc[s] = "responded"

\* The request on connection s addresses the registered route.
ToGreet(s) == req[s].method = "GET" /\ req[s].path = "/greet"

\* The request on connection s carries a value for name.
HasName(s) == req[s].query # <<>>

\* The JSON object sent on connection s has a message field.
HasMessage(s) == "message" \in DOMAIN resp[s].body

\* Everything the server holds about connection s.
Conn(s) == <<pc[s], req[s], endpoint[s], name[s], resp[s]>>

\* C1: every GET /greet request carrying name=v is answered 200 and its
\* message is "Hello, my name is " followed by v, character for character.
C1_GreetingIsPrefixPlusName ==
  \A s \in Slots :
    (Responded(s) /\ ToGreet(s) /\ HasName(s)) =>
      /\ resp[s].status = 200
      /\ HasMessage(s)
      /\ resp[s].body.message = Prefix \o req[s].query[1]

\* C1 witness: a name that is only whitespace has been greeted.
C1_Witness ==
  \E s \in Slots :
    /\ Responded(s) /\ ToGreet(s)
    /\ req[s].query = << <<" ">> >>
    /\ resp[s].status = 200

\* C2: a GET /greet request without name ends in a client error: never a
\* 5xx status, never 200, and never a body with a message field.
C2_MissingNameIsClientError ==
  \A s \in Slots :
    (Responded(s) /\ ToGreet(s) /\ ~HasName(s)) =>
      /\ resp[s].status \in 400..499
      /\ ~HasMessage(s)

\* C2 witness: a GET /greet request without name has been answered.
C2_Witness ==
  \E s \in Slots :
    Responded(s) /\ ToGreet(s) /\ ~HasName(s) /\ resp[s].status # 0

\* C3: name present but empty is well-formed: it is answered 200 with the
\* message being exactly the prefix, not with a client error.
C3_EmptyNameIsGreeted ==
  \A s \in Slots :
    (Responded(s) /\ ToGreet(s) /\ req[s].query = << <<>> >>) =>
      /\ resp[s].status \notin 400..499
      /\ HasMessage(s)
      /\ resp[s].body.message = Prefix
      /\ Len(resp[s].body.message) = 18
      /\ resp[s].body.message[18] = " "

\* C3 witness: a request with name="" has been answered while a request
\* without name was rejected.
C3_Witness ==
  \E s, t \in Slots :
    /\ Responded(s) /\ ToGreet(s) /\ req[s].query = << <<>> >>
    /\ Responded(t) /\ ToGreet(t) /\ req[t].query = <<>>
    /\ resp[s].status # resp[t].status

\* C4: two answered calls with the same request have the same response, in
\* particular the same message for the same name, whatever was served on
\* the connections before them or on other connections in the meantime.
C4_SameNameSameMessage ==
  \A s, t \in Slots :
    (Responded(s) /\ Responded(t) /\ req[s] = req[t]) => resp[s] = resp[t]

\* C4 witness: two distinct calls with the same name have both been greeted.
C4_Witness ==
  \E s, t \in Slots :
    /\ s # t
    /\ Responded(s) /\ Responded(t)
    /\ ToGreet(s) /\ HasName(s) /\ req[s] = req[t]
    /\ resp[s].status = 200

\* C5: under every interleaving, the step that completes a call builds its
\* message from that call's own name only, and no step of one connection
\* changes anything held for another connection.
C5_NoCrossTalk ==
  [][\A s \in Slots :
       /\ (pc[s] = "running" /\ pc'[s] = "responded") =>
             resp'[s] = Ok([message |-> Prefix \o name[s]])
       /\ (Conn(s)' # Conn(s)) =>
             \A t \in Slots \ {s} : Conn(t)' = Conn(t)]_vars

\* C5 witness: one call has been greeted while a call with another name is
\* still running.
C5_Witness ==
  \E s, t \in Slots :
    /\ Responded(s) /\ resp[s].status = 200
    /\ pc[t] = "running"
    /\ name[t] # req[s].query[1]

\* C6: no step, whether it greets or rejects, changes the app object: its
\* routing table stays the single registered route.
C6_NoSideEffects ==
  [][app' = app /\ app.routes = {GreetRoute}]_vars

\* C6 witness: one request has been greeted and another rejected.
C6_Witness ==
  \E s, t \in Slots :
    /\ Responded(s) /\ resp[s].status = 200
    /\ Responded(t) /\ resp[t].status = 422
    /\ app = InitApp

\* C7: greet is called only with a name that is present: a request without
\* name never has greet as its endpoint and is never in the running state.
C7_HandlerOnlyAfterValidation ==
  \A s \in Slots :
    /\ (pc[s] # "idle" /\ ~HasName(s)) =>
          (endpoint[s] = "none" /\ pc[s] # "running")
    /\ (endpoint[s] = "greet") => (HasName(s) /\ name[s] = req[s].query[1])

\* C7 witness: a GET /greet request without name was answered by the
\* framework without greet being called.
C7_Witness ==
  \E s \in Slots :
    /\ Responded(s) /\ ToGreet(s) /\ ~HasName(s)
    /\ endpoint[s] = "none"
    /\ resp[s] = ValidationError

\* C8: every received request is eventually answered, an answer is never
\* replaced by a second one, and a well-formed request is answered 200 with
\* a body of exactly one field, message.
C8_EveryRequestAnswered ==
  /\ \A s \in Slots : (pc[s] = "received") ~> Responded(s)
  /\ [][\A s \in Slots :
          (Responded(s) /\ resp'[s] # resp[s]) => pc'[s] = "idle"]_vars
  /\ [](\A s \in Slots :
          (Responded(s) /\ ToGreet(s) /\ HasName(s)) =>
             (resp[s].status = 200 /\ DOMAIN resp[s].body = {"message"}))
  /\ [](\A s \in Slots : Responded(s) <=> resp[s] # NoResp)

\* C8 witness: a well-formed request has been answered with a one-field body.
C8_Witness ==
  \E s \in Slots :
    /\ Responded(s) /\ endpoint[s] = "greet"
    /\ resp[s].status = 200
    /\ Cardinality(DOMAIN resp[s].body) = 1

StripPrefix(m) == SubSeq(m, Len(Prefix) + 1, Len(m))

\* C10: two greeted calls have the same message only if they had the same
\* name, and removing the prefix from a message gives back the name.
C10_GreetingInjective ==
  \A s, t \in Slots :
    (Responded(s) /\ Responded(t) /\ endpoint[s] = "greet" /\ endpoint[t] = "greet") =>
      /\ (resp[s].body.message = resp[t].body.message => req[s].query = req[t].query)
      /\ StripPrefix(resp[s].body.message) = req[s].query[1]

\* C10 witness: the names "" and " " have both been greeted.
C10_Witness ==
  \E s, t \in Slots :
    /\ Responded(s) /\ Responded(t)
    /\ endpoint[s] = "greet" /\ endpoint[t] = "greet"
    /\ req[s].query = << <<>> >> /\ req[t].query = << <<" ">> >>
    /\ resp[s].body.message # resp[t].body.message

====
